---- MODULE Spec2Model ----
(***************************************************************************)
(* Model of src/frontend/configuration/farm.rs: one row ("farm") of the    *)
(* configuration panel.  A FarmWidget owns a path and a size, each wrapped *)
(* in MaybeValid (value, is_valid and the two change bits), is created by  *)
(* the async init_model, processes its inputs one at a time in the async   *)
(* update, and reports to the owning collection through sender.output.     *)
(***************************************************************************)
EXTENDS Integers, Sequences, FiniteSets, TLC

(***************************************************************************)
(* Bounds of the model.                                                    *)
(***************************************************************************)
NumEntries == 1
NumRows == 2
MaxOps == 3
MaxQueue == 2

(***************************************************************************)
(* Texts are sequences of one-character strings; byte counts, which are   *)
(* 64 bits wide, are sequences of decimal digits (most significant first). *)
(***************************************************************************)
Digits == <<"0", "1", "2", "3", "4", "5", "6", "7", "8", "9">>

IsDigit(c) == \E i \in 1..10 : Digits[i] = c

DigitVal(c) == (CHOOSE i \in 1..10 : Digits[i] = c) - 1

IsWhitespace(c) == c = " "

ToLower(c) ==
    CASE c = "B" -> "b"
      [] c = "K" -> "k"
      [] c = "M" -> "m"
      [] c = "G" -> "g"
      [] c = "T" -> "t"
      [] c = "P" -> "p"
      [] c = "I" -> "i"
      [] OTHER -> c

RECURSIVE StripZeros(_)
StripZeros(ds) ==
    IF Len(ds) > 1 /\ ds[1] = 0 THEN StripZeros(Tail(ds)) ELSE ds

RECURSIVE LexLeq(_, _)
LexLeq(a, b) ==
    IF a = <<>> THEN TRUE
    ELSE IF a[1] # b[1] THEN a[1] < b[1]
    ELSE LexLeq(Tail(a), Tail(b))

\* a <= b for digit sequences
NumLeq(a, b) ==
    LET x == StripZeros(a)
        y == StripZeros(b)
    IN  IF Len(x) # Len(y) THEN Len(x) < Len(y) ELSE LexLeq(x, y)

RECURSIVE ToDigits(_)
ToDigits(n) == IF n < 10 THEN <<n>> ELSE Append(ToDigits(n \div 10), n % 10)

RECURSIVE MulCarry(_, _, _)
\* digits ds times the small factor m plus carry
MulCarry(ds, m, carry) ==
    IF ds = <<>> THEN (IF carry = 0 THEN <<>> ELSE ToDigits(carry))
    ELSE LET n == Len(ds)
             t == ds[n] * m + carry
         IN  Append(MulCarry(SubSeq(ds, 1, n - 1), m, t \div 10), t % 10)

RECURSIVE MulPow(_, _, _)
\* digits ds times base^exp
MulPow(ds, base, exp) ==
    IF exp = 0 THEN ds ELSE MulPow(MulCarry(ds, base, 0), base, exp - 1)

\* u64::MAX = 18446744073709551615
U64Max == <<1,8,4,4,6,7,4,4,0,7,3,7,0,9,5,5,1,6,1,5>>

RECURSIVE TakeWhileNum(_)
\* take_while(value, |c| c.is_ascii_digit() || c == '.')
TakeWhileNum(t) ==
    IF t # <<>> /\ (IsDigit(t[1]) \/ t[1] = ".")
    THEN <<t[1]>> \o TakeWhileNum(Tail(t))
    ELSE <<>>

RECURSIVE SkipWhileNum(_)
\* skip_while(value, |c| c.is_whitespace() || c.is_ascii_digit() || c == '.')
SkipWhileNum(t) ==
    IF t # <<>> /\ (IsWhitespace(t[1]) \/ IsDigit(t[1]) \/ t[1] = ".")
    THEN SkipWhileNum(Tail(t))
    ELSE t

DigitsOf(t) == [i \in 1..Len(t) |-> DigitVal(t[i])]

\* str::parse::<u64>: a non-empty run of digits that fits 64 bits
ParseU64(t) ==
    IF t # <<>> /\ (\A i \in 1..Len(t) : IsDigit(t[i])) /\ NumLeq(DigitsOf(t), U64Max)
    THEN [ok |-> TRUE, digits |-> DigitsOf(t)]
    ELSE [ok |-> FALSE, digits |-> <<>>]

\* str::parse::<f64> of a run of digits and dots: at most one dot and at
\* least one digit; the value is digits / 10^scale
ParseF64(t) ==
    LET dots == {i \in 1..Len(t) : t[i] = "."}
        ds   == SelectSeq(t, IsDigit)
    IN  IF Cardinality(dots) <= 1 /\ ds # <<>>
        THEN [ok |-> TRUE, digits |-> DigitsOf(ds),
              scale |-> IF dots = {} THEN 0
                        ELSE Len(t) - (CHOOSE i \in dots : TRUE)]
        ELSE [ok |-> FALSE, digits |-> <<>>, scale |-> 0]

\* <Unit as FromStr>::from_str: the unit as base^exp
ParseUnit(t) ==
    LET s == [i \in 1..Len(t) |-> ToLower(t[i])]
    IN  CASE s = <<"b">> -> [ok |-> TRUE, base |-> 1000, exp |-> 0]
          [] s \in {<<"k">>, <<"k", "b">>} -> [ok |-> TRUE, base |-> 1000, exp |-> 1]
          [] s \in {<<"k", "i">>, <<"k", "i", "b">>} -> [ok |-> TRUE, base |-> 1024, exp |-> 1]
          [] s \in {<<"m">>, <<"m", "b">>} -> [ok |-> TRUE, base |-> 1000, exp |-> 2]
          [] s \in {<<"m", "i">>, <<"m", "i", "b">>} -> [ok |-> TRUE, base |-> 1024, exp |-> 2]
          [] s \in {<<"g">>, <<"g", "b">>} -> [ok |-> TRUE, base |-> 1000, exp |-> 3]
          [] s \in {<<"g", "i">>, <<"g", "i", "b">>} -> [ok |-> TRUE, base |-> 1024, exp |-> 3]
          [] s \in {<<"t">>, <<"t", "b">>} -> [ok |-> TRUE, base |-> 1000, exp |-> 4]
          [] s \in {<<"t", "i">>, <<"t", "i", "b">>} -> [ok |-> TRUE, base |-> 1024, exp |-> 4]
          [] s \in {<<"p">>, <<"p", "b">>} -> [ok |-> TRUE, base |-> 1000, exp |-> 5]
          [] s \in {<<"p", "i">>, <<"p", "i", "b">>} -> [ok |-> TRUE, base |-> 1024, exp |-> 5]
          [] OTHER -> [ok |-> FALSE, base |-> 0, exp |-> 0]

\* (v * u) as u64: the product truncated towards zero and saturated
MulAsU64(f, u) ==
    LET prod == MulPow(f.digits, u.base, u.exp)
        kept == IF Len(prod) > f.scale
                THEN SubSeq(prod, 1, Len(prod) - f.scale)
                ELSE <<0>>
    IN  IF NumLeq(kept, U64Max) THEN StripZeros(kept) ELSE U64Max

\* ByteSize::from_str
ByteSizeFromStr(t) ==
    LET u64 == ParseU64(t)
        f   == ParseF64(TakeWhileNum(t))
        u   == ParseUnit(SkipWhileNum(t))
    IN  IF u64.ok THEN [ok |-> TRUE, bytes |-> StripZeros(u64.digits)]
        ELSE IF f.ok /\ u.ok THEN [ok |-> TRUE, bytes |-> MulAsU64(f, u)]
        ELSE [ok |-> FALSE, bytes |-> <<0>>]

\* 2 GB
MIN_FARM_SIZE == 1000 * 1000 * 1000 * 2

\* the threshold taken as exclusive
is_size_valid_strict(t) ==
    LET parsed == ByteSizeFromStr(t)
    IN  IF parsed.ok
        THEN NumLeq(ToDigits(MIN_FARM_SIZE), parsed.bytes)
                 /\ parsed.bytes # ToDigits(MIN_FARM_SIZE)
        ELSE FALSE

\* any text that parses taken as valid
is_size_valid_parsed(t) == ByteSizeFromStr(t).ok

is_size_valid(t) ==
    LET parsed == ByteSizeFromStr(t)
    IN  IF parsed.ok THEN NumLeq(ToDigits(MIN_FARM_SIZE), parsed.bytes) ELSE FALSE

(***************************************************************************)
(* The inputs the model draws from.                                        *)
(***************************************************************************)
\* the entries the full state machine drives, the rows of the collection in
\* the several-entries one, and the rows the state is kept for
Entries == 1..NumEntries

Rows == 1..NumRows

AllRows == Entries \cup Rows

EmptyPath == ""

\* what the file system holds at each path
FsKind(p) ==
    CASE p = "/tmp" -> "writable_dir"
      [] p = "/mnt/farm" -> "writable_dir"
      [] p = "/locked" -> "readonly_dir"
      [] p = "/etc/hosts" -> "file"
      [] OTHER -> "missing"

\* the paths of the full state machine, and those of the path-only one
Paths == {"/tmp", "/mnt/farm", "/nonexistent"}

AllPaths == Paths \cup {EmptyPath, "/locked", "/etc/hosts"}

EmptyText == <<>>
Text2GB == <<"2", " ", "G", "B">>
Text1GB == <<"1", " ", "G", "B">>
Text3GB == <<"3", " ", "G", "B">>
Text10 == <<"1", "0">>
TextAbc == <<"a", "b", "c">>
TextMin == <<"2", "0", "0", "0", "0", "0", "0", "0", "0", "0">>
TextBelowMin == <<"1", "9", "9", "9", "9", "9", "9", "9", "9", "9">>

Text19GiB == <<"1", ".", "9", " ", "G", "i", "B">>
Text2000mb == <<"2", "0", "0", "0", "m", "b">>
Text15 == <<"1", ".", "5">>

\* the texts of the full state machine, and those of the size-only one
SizeTexts == {Text2GB, Text1GB, Text3GB}

AllSizeTexts ==
    SizeTexts \cup {EmptyText, Text10, TextAbc, TextMin, TextBelowMin, Text19GiB, Text2000mb, Text15}

\* is_size_valid of each text that can be entered
SizeValidity == [t \in AllSizeTexts |-> is_size_valid(t)]

\* the probe: an existing directory the process may write to
is_directory_writable(p) == FsKind(p) = "writable_dir"

(***************************************************************************)
(* MaybeValid<T>: a value, its validity and the two change bits.           *)
(***************************************************************************)
MaybeValidYes(v) ==
    [value |-> v, is_valid |-> TRUE, value_changed |-> TRUE, validity_changed |-> TRUE]

MaybeValidNo(v) ==
    [value |-> v, is_valid |-> FALSE, value_changed |-> TRUE, validity_changed |-> TRUE]

MaybeValidReset(f) ==
    [f EXCEPT !.value_changed = FALSE, !.validity_changed = FALSE]

MaybeValidSetIsValid(f, b) ==
    [f EXCEPT !.is_valid = b, !.validity_changed = TRUE]

\* the fields of an entry whose init_model has not returned yet
NoPath == [value |-> EmptyPath, is_valid |-> FALSE, value_changed |-> FALSE, validity_changed |-> FALSE]

NoSize == [value |-> EmptyText, is_valid |-> FALSE, value_changed |-> FALSE, validity_changed |-> FALSE]

(***************************************************************************)
(* Messages.                                                               *)
(***************************************************************************)
DirectorySelected(p) == [kind |-> "DirectorySelected", path |-> p, size |-> EmptyText]

FarmSizeChanged(t) == [kind |-> "FarmSizeChanged", path |-> EmptyPath, size |-> t]

FarmWidgetInput ==
    {DirectorySelected(p) : p \in Paths} \cup {FarmSizeChanged(t) : t \in SizeTexts}

NoInput == [kind |-> "none", path |-> EmptyPath, size |-> EmptyText]

NoIndex == -1

ValidityUpdate == [msg |-> "ValidityUpdate", index |-> NoIndex]

OpenDirectory(i) == [msg |-> "OpenDirectory", index |-> i]

Delete(i) == [msg |-> "Delete", index |-> i]

(***************************************************************************)
(* State.                                                                  *)
(***************************************************************************)
VARIABLES
    pc,             \* per entry: "absent", "init_probe", "idle", "update_probe", "panicked"
    init_value,     \* per entry: the FarmWidgetInit held by a running init_model
    index,          \* per entry: the DynamicIndex given at creation
    path,           \* per entry: MaybeValid<PathBuf>
    size,           \* per entry: MaybeValid<String>
    inbox,          \* per entry: inputs sent and not yet taken by update
    input,          \* per entry: the input of the update suspended on its probe
    was_valid,      \* per entry: the local was_valid of that update
    outputs,        \* per entry: the sender.output calls, in order, with their result
    receiver_alive, \* the collection still holds the receiving end
    nops,           \* events accepted so far
    last,           \* per entry: observation of the last finished init_model/update
    e2e,            \* per entry: progress through the end-to-end scenario
    seen_valid,     \* per entry: result of valid() since the last mutation
    seen_farm,      \* per entry: result of farm() since the last mutation
    notified,       \* per entry: the aggregate validity at the last ValidityUpdate
    race            \* per entry: a DirectorySelected sent while a probe was outstanding

vars == <<pc, init_value, index, path, size, inbox, input, was_valid, outputs,
          receiver_alive, nops, last, e2e, seen_valid, seen_farm, notified, race>>

NoInit == [path |-> EmptyPath, size |-> EmptyText]

NoLast == [op |-> "none", arg |-> NoInput, path_was_valid |-> FALSE,
           size_was_valid |-> FALSE, sent |-> 0, err |-> FALSE]

NoFarm == [taken |-> FALSE, path |-> EmptyPath, size |-> EmptyText]

NoRace == [left |-> -1, second |-> EmptyPath]

Init ==
    /\ pc = [e \in AllRows |-> "absent"]
    /\ init_value = [e \in AllRows |-> NoInit]
    /\ index = [e \in AllRows |-> NoIndex]
    /\ path = [e \in AllRows |-> NoPath]
    /\ size = [e \in AllRows |-> NoSize]
    /\ inbox = [e \in AllRows |-> <<>>]
    /\ input = [e \in AllRows |-> NoInput]
    /\ was_valid = [e \in AllRows |-> FALSE]
    /\ outputs = [e \in AllRows |-> <<>>]
    /\ receiver_alive = TRUE
    /\ nops = 0
    /\ last = [e \in AllRows |-> NoLast]
    /\ e2e = [e \in AllRows |-> 0]
    /\ seen_valid = [e \in AllRows |-> "none"]
    /\ seen_farm = [e \in AllRows |-> NoFarm]
    /\ notified = [e \in AllRows |-> "none"]
    /\ race = [e \in AllRows |-> NoRace]

Initialized(e) == pc[e] \in {"idle", "update_probe"}

\* the aggregate taken from the path alone
valid_path_only(p, s) == p.is_valid

\* FarmWidget::valid, on a path field and a size field
valid(p, s) == p.is_valid /\ s.is_valid

\* FarmWidget::farm
farm(p, s) == [taken |-> TRUE, path |-> p.value, size |-> s.value]

\* sender.output(msg): delivered while the receiver lives, an Err (logged
\* with warn!) after that
SenderOutput(outs, msg) ==
    Append(outs, [msg |-> msg.msg, index |-> msg.index, delivered |-> receiver_alive])

CountValidityUpdates(outs) ==
    Cardinality({i \in 1..Len(outs) : outs[i].msg = "ValidityUpdate"})

BoolStr(b) == IF b THEN "true" ELSE "false"

\* the aggregate validity the collection was last told of, after a step that
\* leaves the fields p and s
Notified(e, p, s) ==
    IF CountValidityUpdates(outputs'[e]) > CountValidityUpdates(outputs[e])
    THEN BoolStr(p.is_valid /\ s.is_valid)
    ELSE notified[e]

\* the Err of sender.output unwrapped
OnOutputErrPanic == "panic"

\* what the handler does when sender.output returned Err: warn! and go on
OnOutputErr == "warn"

\* the handler's position after its sender.output call
AfterOutput(next_pc) ==
    IF receiver_alive \/ OnOutputErr = "warn" THEN next_pc ELSE "panicked"

Observed(op, arg, p, s, e) ==
    [op |-> op, arg |-> arg, path_was_valid |-> p.is_valid, size_was_valid |-> s.is_valid,
     sent |-> CountValidityUpdates(outputs'[e]) - CountValidityUpdates(outputs[e]),
     err |-> Len(outputs'[e]) > Len(outputs[e]) /\ ~receiver_alive]

(***************************************************************************)
(* init_model, up to the await of the probe (lines 193-200): the           *)
(* collection appends the entry and hands it its DynamicIndex.             *)
(***************************************************************************)
Initialize(e, p, t) ==
    /\ pc[e] = "absent"
    /\ \A x \in AllRows : x < e => pc[x] # "absent"
    /\ nops < MaxOps
    /\ pc' = [pc EXCEPT ![e] = "init_probe"]
    /\ init_value' = [init_value EXCEPT ![e] = [path |-> p, size |-> t]]
    /\ index' = [index EXCEPT ![e] = Cardinality({x \in AllRows : pc[x] # "absent"})]
    /\ nops' = nops + 1
    /\ UNCHANGED <<path, size, inbox, input, was_valid, outputs, receiver_alive,
                   last, e2e, seen_valid, seen_farm, notified, race>>

(***************************************************************************)
(* init_model, from the probe's result to the return (lines 200-218).      *)
(***************************************************************************)
InitPath(v) ==
    IF is_directory_writable(v.path) THEN MaybeValidYes(v.path) ELSE MaybeValidNo(v.path)

\* the size field built and then reset
InitSizeReset(v) ==
    MaybeValidReset(IF SizeValidity[v.size] THEN MaybeValidYes(v.size)
                    ELSE MaybeValidNo(v.size))

InitSize(v) ==
    IF SizeValidity[v.size] THEN MaybeValidYes(v.size) ELSE MaybeValidNo(v.size)

\* the notification sent for a valid entry only
InitOutputsIfValid(outs, p, s) ==
    IF valid(p, s) THEN SenderOutput(outs, ValidityUpdate) ELSE outs

\* lines 212-216: unconditional, whatever the two fields are
InitOutputs(outs, p, s) == SenderOutput(outs, ValidityUpdate)

InitComplete(e) ==
    /\ pc[e] = "init_probe"
    /\ outputs' = [outputs EXCEPT ![e] =
           InitOutputs(@, InitPath(init_value[e]), InitSize(init_value[e]))]
    /\ pc' = [pc EXCEPT ![e] = AfterOutput("idle")]
    /\ IF pc'[e] = "idle"
       THEN /\ path' = [path EXCEPT ![e] = InitPath(init_value[e])]
            /\ size' = [size EXCEPT ![e] = InitSize(init_value[e])]
            /\ last' = [last EXCEPT ![e] =
                   Observed("Initialize",
                            [kind |-> "Initialize", path |-> init_value[e].path,
                             size |-> init_value[e].size], NoPath, NoSize, e)]
            /\ e2e' = [e2e EXCEPT ![e] =
                   IF init_value[e] = [path |-> "/tmp", size |-> Text2GB] THEN 1 ELSE -1]
            /\ notified' = [notified EXCEPT ![e] = Notified(e, path'[e], size'[e])]
       ELSE UNCHANGED <<path, size, last, e2e, notified>>
    /\ init_value' = [init_value EXCEPT ![e] = NoInit]
    /\ UNCHANGED <<index, inbox, input, was_valid, receiver_alive, nops,
                   seen_valid, seen_farm, race>>

(***************************************************************************)
(* sender.input / the collection's send: an input joins the entry's queue  *)
(* (lines 142-147 for the size; the collection answers OpenDirectory with  *)
(* DirectorySelected).                                                     *)
(***************************************************************************)
\* a message sent while update is suspended is dropped
EnqueueUnlessBusy(q, m, busy) == IF busy THEN q ELSE Append(q, m)

\* the channel keeps every message, in order, whatever update is doing
Enqueue(q, m, busy) == Append(q, m)

\* the DirectorySelected inputs waiting in a queue
PendingDirectories(q) ==
    Cardinality({i \in 1..Len(q) : q[i].kind = "DirectorySelected"})

SendInput(e, m) ==
    /\ Initialized(e)
    /\ nops < MaxOps
    /\ Len(inbox[e]) < MaxQueue
    /\ inbox' = [inbox EXCEPT ![e] = Enqueue(@, m, pc[e] = "update_probe")]
    /\ nops' = nops + 1
    /\ race' = [race EXCEPT ![e] =
           IF m.kind = "DirectorySelected" /\ pc[e] = "update_probe"
           THEN [left |-> PendingDirectories(inbox[e]) + 2, second |-> m.path]
           ELSE @]
    /\ UNCHANGED <<pc, init_value, index, path, size, input, was_valid, outputs,
                   receiver_alive, last, e2e, seen_valid, seen_farm, notified>>

(***************************************************************************)
(* update (lines 221-250).                                                 *)
(***************************************************************************)
\* update takes &mut self (line 221): the next one starts when none is running
UpdateMayStartConcurrently(e) == Initialized(e)

\* one update at a time in the whole collection
UpdateMayStartAlone(e) ==
    pc[e] = "idle" /\ \A x \in AllRows : pc[x] \notin {"init_probe", "update_probe"}

UpdateMayStart(e) == pc[e] = "idle"

\* the reset that also drops the validity
UpdateResetAsNo(f) == MaybeValidReset([f EXCEPT !.is_valid = FALSE])

\* the reset left out
UpdateResetSkipped(f) == f

\* lines 222-224
UpdateReset(f) == MaybeValidReset(f)

\* the queue emptied when an input is taken
RestInputsDrained(q) == <<>>

\* the inputs left once update took the first
RestInputs(q) == Tail(q)

\* the new path written before the probe's result is known
PathWhileProbingEager(p, new_path) == [UpdateReset(p) EXCEPT !.value = new_path]

\* lines 222-230: the path field while update awaits the probe of new_path
PathWhileProbing(p, new_path) == UpdateReset(p)

\* the notification sent only when the entry becomes valid
UpdateOutputsOnValid(outs, was, is) ==
    IF ~was /\ is THEN SenderOutput(outs, ValidityUpdate) ELSE outs

\* the notification sent on every input
UpdateOutputsAlways(outs, was, is) == SenderOutput(outs, ValidityUpdate)

\* lines 242-249: the outputs after the flip check
UpdateOutputs(outs, was, is) ==
    IF was # is THEN SenderOutput(outs, ValidityUpdate) ELSE outs

\* the text stored only when it is valid
UpdateSizeFieldIfValid(s, t) ==
    IF SizeValidity[t]
    THEN [MaybeValidSetIsValid(s, TRUE) EXCEPT !.value = t]
    ELSE MaybeValidSetIsValid(s, FALSE)

\* lines 236-239
UpdateSizeField(s, t) == [MaybeValidSetIsValid(s, SizeValidity[t]) EXCEPT !.value = t]

\* the probe's result ignored
UpdatePathFieldAlwaysYes(p) == MaybeValidYes(p)

\* lines 230-234
UpdatePathField(p) ==
    IF is_directory_writable(p) THEN MaybeValidYes(p) ELSE MaybeValidNo(p)

E2EAfter(e, m) ==
    IF e2e[e] = 1 /\ m = FarmSizeChanged(Text1GB) THEN 2
    ELSE IF e2e[e] = 2 /\ m = FarmSizeChanged(Text3GB) THEN 3
    ELSE -1

\* update with FarmSizeChanged: no await, the whole handler is one step
UpdateSize(e) ==
    /\ UpdateMayStart(e)
    /\ inbox[e] # <<>>
    /\ Head(inbox[e]).kind = "FarmSizeChanged"
    /\ LET m  == Head(inbox[e])
           p0 == UpdateReset(path[e])
           s0 == UpdateReset(size[e])
           was == valid(p0, s0)
           s1 == UpdateSizeField(s0, m.size)
       IN  /\ outputs' = [outputs EXCEPT ![e] = UpdateOutputs(@, was, valid(p0, s1))]
           /\ pc' = [pc EXCEPT ![e] =
                  IF outputs'[e] = outputs[e] THEN "idle" ELSE AfterOutput("idle")]
           /\ path' = [path EXCEPT ![e] = p0]
           /\ size' = [size EXCEPT ![e] = s1]
           /\ last' = [last EXCEPT ![e] = Observed("FarmSizeChanged", m, path[e], size[e], e)]
           /\ e2e' = [e2e EXCEPT ![e] = E2EAfter(e, m)]
           /\ notified' = [notified EXCEPT ![e] = Notified(e, p0, s1)]
    /\ inbox' = [inbox EXCEPT ![e] = RestInputs(@)]
    /\ seen_valid' = [seen_valid EXCEPT ![e] = "none"]
    /\ seen_farm' = [seen_farm EXCEPT ![e] = NoFarm]
    /\ UNCHANGED <<init_value, index, input, was_valid, receiver_alive, nops, race>>

\* update with DirectorySelected, up to the await of the probe (lines 221-230)
UpdateDirectoryStart(e) ==
    /\ UpdateMayStart(e)
    /\ inbox[e] # <<>>
    /\ Head(inbox[e]).kind = "DirectorySelected"
    /\ path' = [path EXCEPT ![e] = PathWhileProbing(@, Head(inbox[e]).path)]
    /\ size' = [size EXCEPT ![e] = UpdateReset(@)]
    /\ was_valid' = [was_valid EXCEPT ![e] = valid(UpdateReset(path[e]), size'[e])]
    /\ input' = [input EXCEPT ![e] = Head(inbox[e])]
    /\ inbox' = [inbox EXCEPT ![e] = RestInputs(@)]
    /\ race' = [race EXCEPT ![e] = IF @.left = 0 THEN NoRace ELSE @]
    /\ pc' = [pc EXCEPT ![e] = "update_probe"]
    /\ seen_valid' = [seen_valid EXCEPT ![e] = "none"]
    /\ seen_farm' = [seen_farm EXCEPT ![e] = NoFarm]
    /\ UNCHANGED <<init_value, index, outputs, receiver_alive, nops, last, e2e, notified>>

\* update with DirectorySelected, from the probe's result on (lines 230-250)
UpdateDirectoryComplete(e) ==
    /\ pc[e] = "update_probe"
    /\ LET p1 == UpdatePathField(input[e].path)
       IN  /\ outputs' = [outputs EXCEPT ![e] =
                  UpdateOutputs(@, was_valid[e], valid(p1, size[e]))]
           /\ pc' = [pc EXCEPT ![e] =
                  IF outputs'[e] = outputs[e] THEN "idle" ELSE AfterOutput("idle")]
           /\ path' = [path EXCEPT ![e] = p1]
           /\ last' = [last EXCEPT ![e] =
                  Observed("DirectorySelected", input[e], path[e], size[e], e)]
           /\ notified' = [notified EXCEPT ![e] = Notified(e, p1, size[e])]
    /\ race' = [race EXCEPT ![e] = IF @.left > 0 THEN [@ EXCEPT !.left = @ - 1] ELSE @]
    /\ e2e' = [e2e EXCEPT ![e] = -1]
    /\ input' = [input EXCEPT ![e] = NoInput]
    /\ was_valid' = [was_valid EXCEPT ![e] = FALSE]
    /\ seen_valid' = [seen_valid EXCEPT ![e] = "none"]
    /\ seen_farm' = [seen_farm EXCEPT ![e] = NoFarm]
    /\ UNCHANGED <<init_value, index, size, inbox, receiver_alive, nops>>

(***************************************************************************)
(* The two buttons (lines 131-138 and 171-179).                            *)
(***************************************************************************)
OpenDirectoryOutputs(outs, i) == SenderOutput(outs, OpenDirectory(i))

\* Delete sent without the entry's index
DeleteOutputsNoIndex(outs, i) == SenderOutput(outs, Delete(NoIndex))

DeleteOutputs(outs, i) == SenderOutput(outs, Delete(i))

ClickOpenDirectory(e) ==
    /\ Initialized(e)
    /\ nops < MaxOps
    /\ outputs' = [outputs EXCEPT ![e] = OpenDirectoryOutputs(@, index[e])]
    /\ pc' = [pc EXCEPT ![e] = AfterOutput(pc[e])]
    /\ nops' = nops + 1
    /\ UNCHANGED <<init_value, index, path, size, inbox, input, was_valid,
                   receiver_alive, last, e2e, seen_valid, seen_farm, notified, race>>

ClickDelete(e) ==
    /\ Initialized(e)
    /\ nops < MaxOps
    /\ outputs' = [outputs EXCEPT ![e] = DeleteOutputs(@, index[e])]
    /\ pc' = [pc EXCEPT ![e] = AfterOutput(pc[e])]
    /\ nops' = nops + 1
    /\ UNCHANGED <<init_value, index, path, size, inbox, input, was_valid,
                   receiver_alive, last, e2e, seen_valid, seen_farm, notified, race>>

(***************************************************************************)
(* The collection's pull queries (lines 253-263) and its end.              *)
(***************************************************************************)
QueryValid(e) ==
    /\ Initialized(e)
    /\ nops < MaxOps
    /\ seen_valid' = [seen_valid EXCEPT ![e] = BoolStr(valid(path[e], size[e]))]
    /\ nops' = nops + 1
    /\ UNCHANGED <<pc, init_value, index, path, size, inbox, input, was_valid, outputs,
                   receiver_alive, last, e2e, seen_farm, notified, race>>

QueryFarm(e) ==
    /\ Initialized(e)
    /\ nops < MaxOps
    /\ seen_farm' = [seen_farm EXCEPT ![e] = farm(path[e], size[e])]
    /\ nops' = nops + 1
    /\ UNCHANGED <<pc, init_value, index, path, size, inbox, input, was_valid, outputs,
                   receiver_alive, last, e2e, seen_valid, notified, race>>

\* the collection is torn down: the receiving end of every sender is gone
Teardown ==
    /\ receiver_alive
    /\ receiver_alive' = FALSE
    /\ UNCHANGED <<pc, init_value, index, path, size, inbox, input, was_valid, outputs,
                   nops, last, e2e, seen_valid, seen_farm, notified, race>>

Next ==
    \/ \E e \in Entries, p \in Paths, t \in SizeTexts : Initialize(e, p, t)
    \/ \E e \in Entries : InitComplete(e)
    \/ \E e \in Entries, m \in FarmWidgetInput : SendInput(e, m)
    \/ \E e \in Entries : UpdateSize(e)
    \/ \E e \in Entries : UpdateDirectoryStart(e)
    \/ \E e \in Entries : UpdateDirectoryComplete(e)
    \/ \E e \in Entries : ClickOpenDirectory(e)
    \/ \E e \in Entries : ClickDelete(e)
    \/ \E e \in Entries : QueryValid(e)
    \/ \E e \in Entries : QueryFarm(e)
    \/ Teardown

Spec == Init /\ [][Next]_vars

\* the size alone, over every text: init_model and update with FarmSizeChanged
NextSize ==
    \/ \E e \in Entries, t \in AllSizeTexts : Initialize(e, "/tmp", t)
    \/ \E e \in Entries : InitComplete(e)
    \/ \E e \in Entries, t \in AllSizeTexts : SendInput(e, FarmSizeChanged(t))
    \/ \E e \in Entries : UpdateSize(e)

SpecSize == Init /\ [][NextSize]_vars

\* the path alone, over every path: init_model and update with DirectorySelected
NextPath ==
    \/ \E e \in Entries, p \in AllPaths : Initialize(e, p, Text2GB)
    \/ \E e \in Entries : InitComplete(e)
    \/ \E e \in Entries, p \in AllPaths : SendInput(e, DirectorySelected(p))
    \/ \E e \in Entries : UpdateDirectoryStart(e)
    \/ \E e \in Entries : UpdateDirectoryComplete(e)

SpecPath == Init /\ [][NextPath]_vars

\* several entries of one collection: init_model and update on each row
NextEntries ==
    \/ \E e \in Rows, p \in Paths : Initialize(e, p, Text2GB)
    \/ \E e \in Rows : InitComplete(e)
    \/ \E e \in Rows, m \in FarmWidgetInput : SendInput(e, m)
    \/ \E e \in Rows : UpdateSize(e)
    \/ \E e \in Rows : UpdateDirectoryStart(e)
    \/ \E e \in Rows : UpdateDirectoryComplete(e)

SpecEntries == Init /\ [][NextEntries]_vars

\* the runtime runs every pending future and every probe completes: init_model
\* and update are taken whenever they stay possible
NextFair ==
    \/ \E e \in Entries, p \in Paths : Initialize(e, p, Text2GB)
    \/ \E e \in Entries : InitComplete(e)
    \/ \E e \in Entries, m \in FarmWidgetInput : SendInput(e, m)
    \/ \E e \in Entries : UpdateSize(e)
    \/ \E e \in Entries : UpdateDirectoryStart(e)
    \/ \E e \in Entries : UpdateDirectoryComplete(e)

SpecFair ==
    /\ Init
    /\ [][NextFair]_vars
    /\ \A e \in Entries :
          /\ WF_vars(InitComplete(e))
          /\ WF_vars(UpdateSize(e))
          /\ WF_vars(UpdateDirectoryStart(e))
          /\ WF_vars(UpdateDirectoryComplete(e))

(***************************************************************************)
(* Properties.                                                             *)
(***************************************************************************)
IsUpdate(op) == op \in {"DirectorySelected", "FarmSizeChanged"}

MinBytes == <<2, 0, 0, 0, 0, 0, 0, 0, 0, 0>>

\* C1: an update emits exactly one ValidityUpdate when the aggregate validity
\* sampled at its start differs from the aggregate validity after the field
\* was revalidated, and none otherwise; a writable directory selected from
\* path invalid, size valid emits one, a writable directory selected from
\* path valid, size valid emits none.
C1_FlipDetection ==
    \A e \in Entries :
        (Initialized(e) /\ IsUpdate(last[e].op)) =>
            /\ last[e].sent =
                   IF (last[e].path_was_valid /\ last[e].size_was_valid)
                          # (path[e].is_valid /\ size[e].is_valid)
                   THEN 1 ELSE 0
            /\ (/\ last[e].op = "DirectorySelected"
                /\ FsKind(last[e].arg.path) = "writable_dir"
                /\ last[e].size_was_valid)
               => last[e].sent = (IF last[e].path_was_valid THEN 0 ELSE 1)

C1_Witness ==
    \E e \in Entries :
        /\ pc[e] = "idle"
        /\ last[e].op = "DirectorySelected"
        /\ last[e].path_was_valid /\ last[e].size_was_valid
        /\ last[e].arg.path = "/mnt/farm"
        /\ path[e].is_valid /\ size[e].is_valid
        /\ last[e].sent = 0
        /\ CountValidityUpdates(outputs[e]) = 2

\* C2: init_model emits exactly one ValidityUpdate for every initial pair,
\* valid or not, and not before the probe's result is known and both fields
\* are set.
C2_InitEmitsOnce ==
    \A e \in Entries :
        /\ pc[e] \in {"absent", "init_probe"} => outputs[e] = <<>>
        /\ pc[e] \notin {"absent", "init_probe"} =>
              /\ outputs[e] # <<>>
              /\ outputs[e][1].msg = "ValidityUpdate"
              /\ path[e].is_valid = (FsKind(path[e].value) = "writable_dir")
        /\ last[e].op = "Initialize" =>
              /\ last[e].sent = 1
              /\ CountValidityUpdates(outputs[e]) = 1

C2_Witness ==
    \E e \in Entries :
        /\ pc[e] = "idle"
        /\ last[e].op = "Initialize"
        /\ ~path[e].is_valid /\ ~size[e].is_valid
        /\ outputs[e] = <<[msg |-> "ValidityUpdate", index |-> NoIndex, delivered |-> TRUE]>>

\* C3: a result of valid() obtained since the last mutation is the
\* conjunction of the two fields' validity as they are now, a repeated call
\* returns the same, and the call leaves both fields as they were.
C3_ValidIsConjunction ==
    [][\A e \in Entries :
          seen_valid'[e] # "none" =>
              /\ seen_valid'[e] = BoolStr(path'[e].is_valid /\ size'[e].is_valid)
              /\ seen_valid[e] # "none" => seen_valid'[e] = seen_valid[e]
              /\ path'[e] = path[e] /\ size'[e] = size[e] /\ pc'[e] = pc[e]]_vars

C3_Witness ==
    \E e \in Entries :
        /\ seen_valid[e] = "false"
        /\ path[e].is_valid /\ ~size[e].is_valid

\* C4: Initialize("/tmp", "2 GB") gives a valid entry and one
\* ValidityUpdate, FarmSizeChanged("1 GB") then makes it invalid with a
\* second one, FarmSizeChanged("3 GB") then makes it valid with a third.
C4_EndToEnd ==
    \A e \in Entries :
        /\ e2e[e] = 1 => /\ path[e].is_valid /\ size[e].is_valid
                         /\ CountValidityUpdates(outputs[e]) = 1
        /\ e2e[e] = 2 => /\ path[e].is_valid /\ ~size[e].is_valid
                         /\ CountValidityUpdates(outputs[e]) = 2
        /\ e2e[e] = 3 => /\ path[e].is_valid /\ size[e].is_valid
                         /\ CountValidityUpdates(outputs[e]) = 3

C4_Witness ==
    \E e \in Entries :
        /\ e2e[e] = 3
        /\ size[e].value = Text3GB
        /\ Len(outputs[e]) = 3

\* C5: the size is valid exactly when its text parses as a byte size of at
\* least 2,000,000,000 bytes, after init_model and after every update.
C5_SizeThreshold ==
    \A e \in Entries :
        Initialized(e) =>
            LET parsed == ByteSizeFromStr(size[e].value)
            IN  /\ size[e].is_valid = (parsed.ok /\ NumLeq(MinBytes, parsed.bytes))
                /\ size[e].value = TextMin =>
                       parsed.bytes = MinBytes /\ size[e].is_valid
                /\ size[e].value = TextBelowMin =>
                       parsed.bytes = <<1, 9, 9, 9, 9, 9, 9, 9, 9, 9>> /\ ~size[e].is_valid
                /\ size[e].value = Text10 => parsed.bytes = <<1, 0>> /\ ~size[e].is_valid
                /\ size[e].value = Text19GiB =>
                       parsed.bytes = <<2, 0, 4, 0, 1, 0, 9, 4, 6, 5>> /\ size[e].is_valid
                /\ size[e].value \in {TextAbc, EmptyText, Text15} =>
                       ~parsed.ok /\ ~size[e].is_valid

C5_Witness ==
    \E e \in Entries :
        /\ pc[e] = "idle"
        /\ last[e].op = "FarmSizeChanged"
        /\ last[e].arg.size = TextMin
        /\ ~last[e].size_was_valid
        /\ size[e].is_valid

\* C6: FarmSizeChanged stores its text as the size value, valid or not; the
\* size value is always the text of the last init_model or FarmSizeChanged;
\* farm() returns the current path value and size value and changes nothing.
C6_SizeKeptAsEntered ==
    [][\A e \in Entries :
          /\ last'[e].op \in {"Initialize", "FarmSizeChanged"} =>
                 size'[e].value = last'[e].arg.size
          /\ last'[e].op = "DirectorySelected" => size'[e].value = size[e].value
          /\ seen_farm'[e].taken =>
                 /\ seen_farm'[e].size = size'[e].value
                 /\ seen_farm'[e].path = path'[e].value
                 /\ path'[e] = path[e] /\ size'[e] = size[e] /\ pc'[e] = pc[e]]_vars

C6_Witness ==
    \E e \in Entries :
        /\ last[e].op = "FarmSizeChanged"
        /\ last[e].size_was_valid
        /\ ~size[e].is_valid
        /\ seen_farm[e].taken
        /\ seen_farm[e].size = Text1GB
        /\ seen_farm[e].path = path[e].value

\* C7: DirectorySelected replaces the path value with the new path whatever
\* the probe says, and the path is valid only for an existing writable
\* directory: a missing path, a file and a directory without write
\* permission are all invalid.
C7_PathProbe ==
    \A e \in Entries :
        (Initialized(e) /\ last[e].op = "DirectorySelected") =>
            /\ path[e].value = last[e].arg.path
            /\ path[e].is_valid = (FsKind(path[e].value) = "writable_dir")
            /\ FsKind(path[e].value) \in {"missing", "file", "readonly_dir"} =>
                   ~path[e].is_valid

C7_Witness ==
    \E e \in Entries :
        /\ pc[e] = "idle"
        /\ last[e].op = "DirectorySelected"
        /\ last[e].path_was_valid
        /\ path[e].value = "/locked"
        /\ ~path[e].is_valid
        /\ size[e].is_valid

\* C8: a sender.output that fails never stops the entry: the handler
\* returns, and the fields are those the operation gives when the delivery
\* succeeds.
C8_DeliveryFailureNonFatal ==
    \A e \in Entries :
        /\ pc[e] # "panicked"
        /\ (\E i \in 1..Len(outputs[e]) : ~outputs[e][i].delivered) => Initialized(e)
        /\ last[e].err =>
              /\ last[e].op \in {"Initialize", "DirectorySelected"} =>
                     /\ path[e].value = last[e].arg.path
                     /\ path[e].is_valid = (FsKind(last[e].arg.path) = "writable_dir")
              /\ last[e].op \in {"Initialize", "FarmSizeChanged"} =>
                     /\ size[e].value = last[e].arg.size
                     /\ size[e].is_valid = (ByteSizeFromStr(last[e].arg.size).ok
                            /\ NumLeq(MinBytes, ByteSizeFromStr(last[e].arg.size).bytes))

C8_Witness ==
    \E e \in Entries :
        /\ pc[e] = "idle"
        /\ last[e].err
        /\ last[e].op = "FarmSizeChanged"
        /\ \E i \in 1..Len(outputs[e]) :
               outputs[e][i].msg = "Delete" /\ ~outputs[e][i].delivered

\* C9: a click emits OpenDirectory or Delete with the DynamicIndex the entry
\* got at creation and changes nothing of the entry, which stays in place.
C9_ClicksOnlyEmit ==
    [][\A e \in Entries :
          /\ \A i \in 1..Len(outputs'[e]) :
                 outputs'[e][i].msg \in {"OpenDirectory", "Delete"} =>
                     outputs'[e][i].index = index'[e] /\ index'[e] # NoIndex
          /\ pc[e] # "absent" => index'[e] = index[e]
          /\ (/\ Len(outputs'[e]) = Len(outputs[e]) + 1
              /\ outputs'[e][Len(outputs'[e])].msg \in {"OpenDirectory", "Delete"}) =>
                 /\ path'[e] = path[e] /\ size'[e] = size[e]
                 /\ pc'[e] = pc[e] /\ inbox'[e] = inbox[e]
                 /\ SubSeq(outputs'[e], 1, Len(outputs[e])) = outputs[e]]_vars

C9_Witness ==
    \E e \in Entries :
        /\ Len(outputs[e]) = 3
        /\ outputs[e][2] = [msg |-> "OpenDirectory", index |-> index[e], delivered |-> TRUE]
        /\ outputs[e][3] = [msg |-> "Delete", index |-> index[e], delivered |-> TRUE]
        /\ Initialized(e)

\* C10: right after init_model both fields have both change bits set,
\* whichever of MaybeValid::yes and MaybeValid::no built them.
C10_FlagsAfterInit ==
    \A e \in Entries :
        (pc[e] = "idle" /\ last[e].op = "Initialize") =>
            /\ path[e].value_changed /\ path[e].validity_changed
            /\ size[e].value_changed /\ size[e].validity_changed

C10_Witness ==
    \E e \in Entries :
        /\ pc[e] = "idle"
        /\ last[e].op = "Initialize"
        /\ path[e].is_valid /\ ~size[e].is_valid
        /\ path[e].value_changed /\ size[e].validity_changed

NoFlag(f) == ~f.value_changed /\ ~f.validity_changed

\* C11: after the reset at the start of an update, and before any mutation,
\* both change flags of a field are false; once the update has replaced the
\* size value and set its validity, value_changed and validity_changed of the
\* size are both true, whether or not the text or the validity differ from
\* the old ones.
C11_ChangeFlags ==
    \A e \in Entries :
        /\ pc[e] = "update_probe" => NoFlag(path[e]) /\ NoFlag(size[e])
        /\ (pc[e] = "idle" /\ last[e].op = "FarmSizeChanged") =>
               size[e].value_changed /\ size[e].validity_changed

\* C12: every update resets the flags of both fields at its start and never
\* after: while it awaits the probe no flag is set, after DirectorySelected
\* both path flags are true and both size flags false, after FarmSizeChanged
\* both path flags are false and the validity flag of the size is true.
C12_ResetAtStart ==
    \A e \in Entries :
        /\ pc[e] = "update_probe" => NoFlag(path[e]) /\ NoFlag(size[e])
        /\ (pc[e] = "idle" /\ last[e].op = "DirectorySelected") =>
               /\ path[e].value_changed /\ path[e].validity_changed
               /\ NoFlag(size[e])
        /\ (pc[e] = "idle" /\ last[e].op = "FarmSizeChanged") =>
               /\ NoFlag(path[e])
               /\ size[e].validity_changed

C12_Witness ==
    \E e \in Entries :
        /\ pc[e] = "idle"
        /\ last[e].op = "DirectorySelected"
        /\ path[e].value_changed /\ path[e].validity_changed
        /\ NoFlag(size[e])
        /\ path[e].value = "/mnt/farm"

\* C13: after an update with FarmSizeChanged the size holds the new text and
\* its value_changed and validity_changed are both true, also when the size
\* validity is what it was and no ValidityUpdate was sent.
C13_SizeChangeObservable ==
    \A e \in Entries :
        (pc[e] = "idle" /\ last[e].op = "FarmSizeChanged") =>
            /\ size[e].value = last[e].arg.size
            /\ size[e].validity_changed
            /\ size[e].value_changed

SameContent(f, g) == f.value = g.value /\ f.is_valid = g.is_valid

\* C14: an update with FarmSizeChanged leaves the value and the validity of
\* the path as they were, an update with DirectorySelected, from its start to
\* the end of its probe, leaves the value and the validity of the size as
\* they were, and no step changes the index of an entry that exists.
C14_OwnFieldOnly ==
    [][\A e \in Entries :
          /\ (/\ pc[e] = "idle"
              /\ Len(inbox'[e]) < Len(inbox[e])
              /\ Head(inbox[e]).kind = "FarmSizeChanged") =>
                 SameContent(path'[e], path[e])
          /\ (pc[e] = "update_probe" \/ pc'[e] = "update_probe") =>
                 SameContent(size'[e], size[e])
          /\ pc[e] # "absent" => index'[e] = index[e]]_vars

C14_Witness ==
    \E e \in Entries :
        /\ pc[e] = "idle"
        /\ last[e].op = "FarmSizeChanged"
        /\ last[e].path_was_valid /\ path[e].is_valid
        /\ last[e].size_was_valid /\ ~size[e].is_valid
        /\ index[e] = 0

\* C15: while an update of an entry awaits its probe, no other update of that
\* entry runs: no input is taken from its queue, its size is not touched, its
\* path changes only by the result of that probe, and the validity sampled
\* before the probe is the validity of the entry all along.
C15_OneUpdateAtATime ==
    [][\A e \in Entries :
          pc[e] = "update_probe" =>
              /\ was_valid[e] = (path[e].is_valid /\ size[e].is_valid)
              /\ size'[e] = size[e]
              /\ Len(inbox'[e]) >= Len(inbox[e])
              /\ \/ path'[e] = path[e] /\ pc'[e] = "update_probe"
                 \/ /\ pc'[e] # "update_probe"
                    /\ path'[e].value = input[e].path]_vars

C15_Witness ==
    \E e \in Entries :
        /\ pc[e] = "update_probe"
        /\ inbox[e] # <<>>
        /\ Head(inbox[e]).kind = "FarmSizeChanged"
        /\ was_valid[e]
        /\ ~is_size_valid(Head(inbox[e]).size)

\* C16: from the start of an update with DirectorySelected to the end of its
\* probe the entry shows what it showed before: value and validity of path
\* and size are untouched and valid() answers as before; the path and its
\* validity are replaced together, so the validity of an entry's path is
\* always the one of the path it holds.
C16_PriorStateVisible ==
    [][\A e \in Entries :
          /\ pc'[e] = "update_probe" =>
                 /\ SameContent(path'[e], path[e])
                 /\ SameContent(size'[e], size[e])
                 /\ seen_valid'[e] \in {"none", BoolStr(was_valid'[e])}
          /\ Initialized(e)' =>
                 path'[e].is_valid = is_directory_writable(path'[e].value)]_vars

C16_Witness ==
    \E e \in Entries :
        /\ pc[e] = "update_probe"
        /\ path[e].value = "/tmp" /\ path[e].is_valid
        /\ input[e].path = "/nonexistent"
        /\ seen_valid[e] = "true"

\* C17: when a DirectorySelected arrives while the probe of an earlier one is
\* outstanding, none of the two is lost (each is waiting or being probed until
\* its result is applied), and once both have finished the entry holds the
\* path of the one that finished last, with the validity of that path.
C17_LastWriteWins ==
    \A e \in Entries :
        /\ race[e].left > 0 =>
               PendingDirectories(inbox[e])
                   + (IF pc[e] = "update_probe" THEN 1 ELSE 0) >= race[e].left
        /\ race[e].left = 0 =>
               /\ path[e].value = race[e].second
               /\ path[e].is_valid = is_directory_writable(race[e].second)

C17_Witness ==
    \E e \in Entries :
        /\ pc[e] = "idle"
        /\ race[e].left = 0
        /\ race[e].second = "/nonexistent"
        /\ path[e].value = "/nonexistent" /\ ~path[e].is_valid
        /\ last[e].op = "DirectorySelected" /\ last[e].path_was_valid

\* C19: an entry that exists and has no update in progress has the aggregate
\* validity it had when it last emitted ValidityUpdate, the one of init_model
\* included.
C19_NotifiedValidityCurrent ==
    \A e \in Entries :
        pc[e] = "idle" =>
            notified[e] = BoolStr(path[e].is_valid /\ size[e].is_valid)

C19_Witness ==
    \E e \in Entries :
        /\ pc[e] = "idle"
        /\ last[e].op = "FarmSizeChanged"
        /\ last[e].sent = 1
        /\ notified[e] = "false"
        /\ CountValidityUpdates(outputs[e]) = 2

\* what one row of the collection holds
RowState(e) ==
    <<pc[e], index[e], path[e], size[e], inbox[e], input[e], was_valid[e], outputs[e]>>

\* C18: a step of init_model or update on one entry leaves the fields, the
\* validity, the change flags and the queue of every other entry as they
\* were, and an entry with no update of its own running may start one
\* whatever probe of another entry is outstanding.
C18_EntriesIndependent ==
    [][\A a \in Rows : \A b \in Rows \ {a} :
          /\ RowState(a)' # RowState(a) => RowState(b)' = RowState(b)
          /\ pc[b] = "idle" => UpdateMayStart(b)]_vars

C18_Witness ==
    \E a \in Rows : \E b \in Rows \ {a} :
        /\ pc[a] = "init_probe"
        /\ pc[b] = "idle"
        /\ last[b].op = "FarmSizeChanged"
        /\ size[b].value = Text3GB
        /\ index[a] = 1 /\ index[b] = 0

\* C20: with every future run and every probe completing, each entry ends up
\* with no update running and no input waiting; an input leaves the queue
\* only as the first of it and by being applied (the size replaced, or the
\* probe of the path started and later its result written); and while a probe
\* has not completed the fields keep their content and nothing is emitted.
C20_InputsEventuallyApplied ==
    /\ \A e \in Entries : <>[](pc[e] \in {"absent", "idle"} /\ inbox[e] = <<>>)
    /\ [][\A e \in Entries :
             /\ Len(inbox'[e]) < Len(inbox[e]) =>
                    /\ inbox'[e] = Tail(inbox[e])
                    /\ IF Head(inbox[e]).kind = "FarmSizeChanged"
                       THEN /\ size'[e].value = Head(inbox[e]).size
                            /\ last'[e].op = "FarmSizeChanged"
                       ELSE /\ pc'[e] = "update_probe"
                            /\ input'[e] = Head(inbox[e])
             /\ (pc[e] = "update_probe" /\ pc'[e] # "update_probe") =>
                    /\ path'[e].value = input[e].path
                    /\ last'[e].op = "DirectorySelected"
             /\ (pc[e] = "update_probe" /\ pc'[e] = "update_probe") =>
                    /\ SameContent(path'[e], path[e])
                    /\ SameContent(size'[e], size[e])
                    /\ outputs'[e] = outputs[e]]_vars

C20_Witness ==
    \E e \in Entries :
        /\ pc[e] = "idle"
        /\ inbox[e] = <<>>
        /\ nops = MaxOps
        /\ last[e].op = "DirectorySelected"
        /\ path[e].value = "/nonexistent"
        /\ size[e].value = Text1GB

====
